---- MODULE Spec2Model ----
(***************************************************************************)
(* thomasqvalue.py: Thomas' Q-value of an addition, a subtraction or a     *)
(* one-digit multiplication, and the randomized search for a calculation   *)
(* whose Q-value lies in a requested interval.                             *)
(*                                                                         *)
(* The module is Python 2 (print statement, raw_input): `/` on two ints is *)
(* floor division, and None compares lower than every number, so that      *)
(* `None >= lower` is False and raises nothing.                            *)
(*                                                                         *)
(* A Q-value is a sum of log10(k) terms over integers k. It is kept here   *)
(* as the sequence of the integers k handed to log10, in the order the     *)
(* code adds them (the empty sequence is the initial Q = 0). Its numeric   *)
(* value is log10 of the product of the terms (exact real arithmetic; the  *)
(* rounding of the floating-point sums is not modelled).                   *)
(***************************************************************************)
EXTENDS Integers, Sequences, FiniteSets

VARIABLES fn, pc, n1, n2, x, multiplicand, length, d, Q, carry,
          lower, upper, minint, maxint, ntrials, i, ret

vars == <<fn, pc, n1, n2, x, multiplicand, length, d, Q, carry,
          lower, upper, minint, maxint, ntrials, i, ret>>

\* A local variable that is not bound yet.
Unbound == "unbound"

\* The Python values a function returns: None, or a number (an int, or a
\* Q-value as the sequence of its log10 arguments).
None == [type |-> "NoneType"]

Num(v) == [type |-> "number", value |-> v]

\* The value of ret while the function has not returned.
Pending == [type |-> "pending"]

\* The outcome of a call that ended with an exception.
Raised == [type |-> "ValueError"]

\* Largest operand handed to q_addition, q_subtraction and q_multiplication.
MaxOperand == 210

\* Largest multiplier handed to q_multiplication (the valid ones are 2..9).
MaxX == 11

\* Largest maxint, largest minint and largest ntrials handed to a search.
MaxSearchInt == 11
MaxMinInt == 1
MaxTrials == 2

\* The default minint of get_calculation_addition.
DefaultMinInt == 1

----------------------------------------------------------------------------
(* Digit strings *)

\* str(n) for n >= 0, as the sequence of its decimal digits, most
\* significant first.
RECURSIVE str(_)
str(n) == IF n < 10 THEN <<n>> ELSE Append(str(n \div 10), n % 10)

\* s.zfill(width): s padded on the left with zeros to width.
RECURSIVE zfill(_, _)
zfill(s, width) == IF Len(s) >= width THEN s ELSE zfill(<<0>> \o s, width)

max(p, q) == IF p >= q THEN p ELSE q

abs(k) == IF k < 0 THEN -k ELSE k

\* The zero-padding of q_addition and q_subtraction: both strings padded to
\* the longer length when the lengths differ.
PadPair(s1, s2) ==
    LET len == max(Len(s1), Len(s2))
    IN  IF Len(s1) # Len(s2)
        THEN [n1 |-> zfill(s1, len), n2 |-> zfill(s2, len), length |-> len]
        ELSE [n1 |-> s1, n2 |-> s2, length |-> len]

----------------------------------------------------------------------------
(* One iteration of each accumulator's loop: the new Q and the new carry *)

\* math.log10(k) raises ValueError unless k > 0.
log10_defined(k) == k > 0

\* An iteration that took Q from Qold to Qnew handed log10 a k <= 0.
log10_raises(Qold, Qnew) ==
    Len(Qnew) > Len(Qold) /\ ~log10_defined(Qnew[Len(Qnew)])

\* addition_step without the branch for zero digits.
addition_step_nozero(Qv, c, d1, d2) ==
    IF d1 + d2 + c < 10
    THEN [Q |-> Append(Qv, d1 + d2 + d1 + d2 + c), carry |-> 0]
    ELSE [Q |-> Append(Qv, d1 + d2 + d1 + d2 + 10 + c), carry |-> 1]

\* addition_step skipping a position only when both digits are zero.
addition_step_bothzero(Qv, c, d1, d2) ==
    IF (d1 = 0 /\ d2 = 0) /\ c = 0
    THEN [Q |-> Qv, carry |-> c]
    ELSE IF d1 + d2 + c < 10
    THEN [Q |-> Append(Qv, d1 + d2 + d1 + d2 + c), carry |-> 0]
    ELSE [Q |-> Append(Qv, d1 + d2 + d1 + d2 + 10 + c), carry |-> 1]

\* q_addition, body of the for loop.
addition_step(Qv, c, d1, d2) ==
    IF (d1 = 0 \/ d2 = 0) /\ c = 0
    THEN [Q |-> Qv, carry |-> c]
    ELSE IF d1 + d2 + c < 10
    THEN [Q |-> Append(Qv, d1 + d2 + d1 + d2 + c), carry |-> 0]
    ELSE [Q |-> Append(Qv, d1 + d2 + d1 + d2 + 10 + c), carry |-> 1]

\* subtraction_step with the signed difference in the constellation.
subtraction_step_signed(Qv, c, d1, d2) ==
    IF d2 = 0 /\ c = 0
    THEN [Q |-> Qv, carry |-> c]
    ELSE IF d1 - d2 - c >= 0
    THEN [Q |-> Append(Qv, d1 + d2 + (d1 - d2) + c), carry |-> 0]
    ELSE [Q |-> Append(Qv, d1 + d2 + (d1 - d2) + 10 + c), carry |-> 1]

\* subtraction_step skipping every position that subtracts 0, whatever the
\* incoming carry.
subtraction_step_nocarrytest(Qv, c, d1, d2) ==
    IF d2 = 0
    THEN [Q |-> Qv, carry |-> c]
    ELSE IF d1 - d2 - c >= 0
    THEN [Q |-> Append(Qv, d1 + d2 + abs(d1 - d2) + c), carry |-> 0]
    ELSE [Q |-> Append(Qv, d1 + d2 + abs(d1 - d2) + 10 + c), carry |-> 1]

\* q_subtraction, body of the for loop.
subtraction_step(Qv, c, d1, d2) ==
    IF d2 = 0 /\ c = 0
    THEN [Q |-> Qv, carry |-> c]
    ELSE IF d1 - d2 - c >= 0
    THEN [Q |-> Append(Qv, d1 + d2 + abs(d1 - d2) + c), carry |-> 0]
    ELSE IF d1 - d2 - c < 0
    THEN [Q |-> Append(Qv, d1 + d2 + abs(d1 - d2) + 10 + c), carry |-> 1]
    ELSE [Q |-> Qv, carry |-> c]

\* multiplication_step carrying the remainder itself, not its tens count.
multiplication_step_remainder(Qv, c, xx, m, dd) ==
    IF xx * m + c < 10
    THEN [Q |-> Append(Qv, xx + m + xx * m + c), carry |-> 0]
    ELSE IF dd = 0 /\ c = 0
    THEN [Q |-> Append(Qv, xx + m + xx * m), carry |-> c]
    ELSE LET intermediateproduct == xx * m + c
             remainder == intermediateproduct - (intermediateproduct % 10)
         IN  [Q |-> Append(Qv, xx + m + xx * m + c + intermediateproduct),
              carry |-> remainder]

\* q_multiplication, body of the for loop; dd is the string index of the
\* digit m (0 is the most significant digit, the last one processed).
multiplication_step(Qv, c, xx, m, dd) ==
    IF xx * m + c < 10
    THEN [Q |-> Append(Qv, xx + m + xx * m + c), carry |-> 0]
    ELSE IF dd = 0 /\ c = 0
    THEN [Q |-> Append(Qv, xx + m + xx * m), carry |-> c]
    ELSE LET intermediateproduct == xx * m + c
             remainder == intermediateproduct - (intermediateproduct % 10)
             newdigit == intermediateproduct % 10
             term == IF intermediateproduct % 10 = 0
                     THEN xx + m + xx * m + c + intermediateproduct
                     ELSE IF dd = 0
                     THEN xx + m + xx * m + c + intermediateproduct
                     ELSE IF c > 0
                     THEN xx + m + xx * m + c + intermediateproduct
                          + remainder + newdigit
                     ELSE xx + m + xx * m + remainder + newdigit
         IN  [Q |-> Append(Qv, term), carry |-> remainder \div 10]

----------------------------------------------------------------------------
(* The accumulators as functions of their arguments *)

q_addition_valid(a, b) == a > 0 /\ b > 0

\* The domain check of q_subtraction with <= for <.
q_subtraction_valid_le(a, b) == a > 0 /\ b > 0 /\ b <= a

q_subtraction_valid(a, b) == a > 0 /\ b > 0 /\ b < a

q_multiplication_valid(xx, m) == ~(xx < 2 \/ xx > 9)

RECURSIVE addition_loop(_, _, _, _, _)
addition_loop(s1, s2, dd, Qv, c) ==
    IF dd < 0 THEN Num(Qv)
    ELSE LET r == addition_step(Qv, c, s1[dd + 1], s2[dd + 1])
         IN  IF log10_raises(Qv, r.Q) THEN Raised
             ELSE addition_loop(s1, s2, dd - 1, r.Q, r.carry)

q_addition(a, b) ==
    IF ~q_addition_valid(a, b) THEN None
    ELSE LET p == PadPair(str(a), str(b))
         IN  addition_loop(p.n1, p.n2, p.length - 1, <<>>, 0)

RECURSIVE subtraction_loop(_, _, _, _, _)
subtraction_loop(s1, s2, dd, Qv, c) ==
    IF dd < 0 THEN Num(Qv)
    ELSE LET r == subtraction_step(Qv, c, s1[dd + 1], s2[dd + 1])
         IN  IF log10_raises(Qv, r.Q) THEN Raised
             ELSE subtraction_loop(s1, s2, dd - 1, r.Q, r.carry)

q_subtraction(a, b) ==
    IF ~q_subtraction_valid(a, b) THEN None
    ELSE LET p == PadPair(str(a), str(b))
         IN  subtraction_loop(p.n1, p.n2, p.length - 1, <<>>, 0)

RECURSIVE multiplication_loop(_, _, _, _, _)
multiplication_loop(xx, s, dd, Qv, c) ==
    IF dd < 0 THEN Num(Qv)
    ELSE LET r == multiplication_step(Qv, c, xx, s[dd + 1], dd)
         IN  IF log10_raises(Qv, r.Q) THEN Raised
             ELSE multiplication_loop(xx, s, dd - 1, r.Q, r.carry)

q_multiplication(xx, m) ==
    IF ~q_multiplication_valid(xx, m) THEN None
    ELSE multiplication_loop(xx, str(m), Len(str(m)) - 1, <<>>, 0)

----------------------------------------------------------------------------
(* Numeric value of a Q: log10 of the product of its terms *)

RECURSIVE QProduct(_)
QProduct(Qv) == IF Qv = <<>> THEN 1 ELSE Head(Qv) * QProduct(Tail(Qv))

\* log10(p) >= level, for an integer level: p >= 10^level.
RECURSIVE Log10Ge(_, _)
Log10Ge(p, level) ==
    IF level <= 0 THEN p >= 1
    ELSE IF p < 10 THEN FALSE
    ELSE Log10Ge(p \div 10, level - 1)

\* log10(p) <= level, for an integer level: p <= 10^level.
RECURSIVE Log10Le(_, _)
Log10Le(p, level) ==
    IF level < 0 THEN FALSE
    ELSE IF level = 0 THEN p <= 1
    ELSE Log10Le((p + 9) \div 10, level - 1)

\* InRange testing the lower bound only.
InRange_loweronly(q, lo, hi) ==
    /\ q # None
    /\ Log10Ge(QProduct(q.value), lo)

\* InRange with `or` for `and`; None <= hi is True.
InRange_or(q, lo, hi) ==
    \/ q = None
    \/ Log10Ge(QProduct(q.value), lo)
    \/ Log10Le(QProduct(q.value), hi)

\* `q >= lo and q <= hi` of the search functions, for the value q of an
\* accumulator; None >= lo is False.
InRange(q, lo, hi) ==
    /\ q # None
    /\ Log10Ge(QProduct(q.value), lo)
    /\ Log10Le(QProduct(q.value), hi)

----------------------------------------------------------------------------
(* Calls of q_addition, q_subtraction and q_multiplication, one action per *)
(* step of the function                                                    *)

Accumulators == {"q_addition", "q_subtraction", "q_multiplication"}

Init ==
    /\ fn \in Accumulators
    /\ pc = "call"
    /\ IF fn = "q_multiplication"
       THEN /\ x \in 0..MaxX
            /\ multiplicand \in 0..MaxOperand
            /\ n1 = Unbound /\ n2 = Unbound
       ELSE /\ n1 \in -1..MaxOperand
            /\ n2 \in -1..MaxOperand
            /\ x = Unbound /\ multiplicand = Unbound
    /\ length = Unbound /\ d = Unbound /\ Q = Unbound /\ carry = Unbound
    /\ lower = Unbound /\ upper = Unbound /\ minint = Unbound /\ maxint = Unbound
    /\ ntrials = Unbound /\ i = Unbound
    /\ ret = Pending

SearchUnchanged == UNCHANGED <<lower, upper, minint, maxint, ntrials, i>>

\* The domain check failed: return None.
ReturnNone ==
    /\ pc = "call"
    /\ \/ fn = "q_addition" /\ ~q_addition_valid(n1, n2)
       \/ fn = "q_subtraction" /\ ~q_subtraction_valid(n1, n2)
       \/ fn = "q_multiplication" /\ ~q_multiplication_valid(x, multiplicand)
    /\ pc' = "returned"
    /\ ret' = None
    /\ UNCHANGED <<fn, n1, n2, x, multiplicand, length, d, Q, carry>>
    /\ SearchUnchanged

\* q_addition and q_subtraction up to the loop: the operands become digit
\* strings of one length, Q = 0 and carry = 0.
EnterPair ==
    /\ pc = "call"
    /\ \/ fn = "q_addition" /\ q_addition_valid(n1, n2)
       \/ fn = "q_subtraction" /\ q_subtraction_valid(n1, n2)
    /\ LET p == PadPair(str(n1), str(n2))
       IN  /\ n1' = p.n1
           /\ n2' = p.n2
           /\ length' = p.length
           /\ d' = p.length - 1
    /\ Q' = <<>>
    /\ carry' = 0
    /\ pc' = "loop"
    /\ UNCHANGED <<fn, x, multiplicand, ret>>
    /\ SearchUnchanged

\* q_multiplication up to the loop.
EnterMultiplication ==
    /\ pc = "call"
    /\ fn = "q_multiplication" /\ q_multiplication_valid(x, multiplicand)
    /\ multiplicand' = str(multiplicand)
    /\ d' = Len(str(multiplicand)) - 1
    /\ Q' = <<>>
    /\ carry' = 0
    /\ pc' = "loop"
    /\ UNCHANGED <<fn, n1, n2, x, length, ret>>
    /\ SearchUnchanged

\* The end of one iteration that computed r: the exception of log10 when
\* the iteration handed it a k <= 0, the new Q and carry otherwise.
IterationOutcome(r) ==
    IF log10_raises(Q, r.Q)
    THEN /\ pc' = "raised"
         /\ UNCHANGED <<Q, carry, d>>
    ELSE /\ Q' = r.Q
         /\ carry' = r.carry
         /\ d' = d - 1
         /\ pc' = pc

AdditionIteration ==
    /\ pc = "loop" /\ fn = "q_addition" /\ d >= 0
    /\ IterationOutcome(addition_step(Q, carry, n1[d + 1], n2[d + 1]))
    /\ UNCHANGED <<fn, n1, n2, x, multiplicand, length, ret>>
    /\ SearchUnchanged

SubtractionIteration ==
    /\ pc = "loop" /\ fn = "q_subtraction" /\ d >= 0
    /\ IterationOutcome(subtraction_step(Q, carry, n1[d + 1], n2[d + 1]))
    /\ UNCHANGED <<fn, n1, n2, x, multiplicand, length, ret>>
    /\ SearchUnchanged

MultiplicationIteration ==
    /\ pc = "loop" /\ fn = "q_multiplication" /\ d >= 0
    /\ IterationOutcome(multiplication_step(Q, carry, x, multiplicand[d + 1], d))
    /\ UNCHANGED <<fn, n1, n2, x, multiplicand, length, ret>>
    /\ SearchUnchanged

\* The loop is over: return Q.
ReturnQ ==
    /\ pc = "loop" /\ fn \in Accumulators /\ d < 0
    /\ pc' = "returned"
    /\ ret' = Num(Q)
    /\ UNCHANGED <<fn, n1, n2, x, multiplicand, length, d, Q, carry>>
    /\ SearchUnchanged

Next ==
    \/ ReturnNone
    \/ EnterPair
    \/ EnterMultiplication
    \/ AdditionIteration
    \/ SubtractionIteration
    \/ MultiplicationIteration
    \/ ReturnQ

Spec == Init /\ [][Next]_vars

----------------------------------------------------------------------------
(* Calls of get_calculation_addition, get_calculation_subtraction and      *)
(* get_calculation_multiplication, one action per iteration of the loop    *)

Searches == {"get_calculation_addition", "get_calculation_subtraction",
             "get_calculation_multiplication"}

\* The (lower, upper) pairs handed to a search.
Intervals == {<<0, 0>>, <<0, 1>>, <<1, 2>>, <<100, 200>>}

\* [None, None, None]
Sentinel == <<None, None, None>>

SearchInit ==
    /\ fn \in Searches
    /\ pc = "loop"
    /\ \E iv \in Intervals : lower = iv[1] /\ upper = iv[2]
    /\ minint \in 0..MaxMinInt
    /\ maxint \in 0..MaxSearchInt
    /\ ntrials \in 0..MaxTrials
    /\ i = 0
    /\ n1 = Unbound /\ n2 = Unbound
    /\ x = Unbound /\ multiplicand = Unbound
    /\ length = Unbound /\ d = Unbound /\ Q = Unbound /\ carry = Unbound
    /\ ret = Pending

ParamsUnchanged ==
    UNCHANGED <<fn, lower, upper, minint, maxint, ntrials, length, d, Q, carry>>

\* The end of one iteration whose candidate (a, b) has the Q-value q:
\* return [a, b, q] when q is in range, go on to the next iteration
\* otherwise.
TrialOutcome(a, b, q) ==
    IF q = Raised
    THEN /\ ret' = ret
         /\ pc' = "raised"
         /\ i' = i
    ELSE IF InRange(q, lower, upper)
    THEN /\ ret' = <<Num(a), Num(b), q>>
         /\ pc' = "returned"
         /\ i' = i
    ELSE /\ ret' = ret
         /\ pc' = pc
         /\ i' = i + 1

\* randint(lo, hi): the integers it may return (none when lo > hi, where
\* it raises ValueError).
randint(lo, hi) == lo..hi

AdditionTrial ==
    /\ pc = "loop" /\ fn = "get_calculation_addition" /\ i < ntrials
    /\ \E a \in randint(minint, maxint) : \E b \in randint(minint, maxint) :
          /\ n1' = a
          /\ n2' = b
          /\ TrialOutcome(a, b, q_addition(a, b))
    /\ UNCHANGED <<x, multiplicand>>
    /\ ParamsUnchanged

SubtractionTrial ==
    /\ pc = "loop" /\ fn = "get_calculation_subtraction" /\ i < ntrials
    /\ \E a \in randint(minint, maxint) : \E b \in randint(minint, a) :
          /\ n1' = a
          /\ n2' = b
          /\ TrialOutcome(a, b, q_subtraction(a, b))
    /\ UNCHANGED <<x, multiplicand>>
    /\ ParamsUnchanged

MultiplicationTrial ==
    /\ pc = "loop" /\ fn = "get_calculation_multiplication" /\ i < ntrials
    /\ \E a \in randint(2, 9) : \E b \in randint(minint, maxint) :
          /\ x' = a
          /\ multiplicand' = b
          /\ TrialOutcome(a, b, q_multiplication(a, b))
    /\ UNCHANGED <<n1, n2>>
    /\ ParamsUnchanged

\* randint(minint, maxint) raises ValueError (empty range): the call ends
\* with the exception.
RandintRaises ==
    /\ pc = "loop" /\ fn \in Searches /\ i < ntrials
    /\ randint(minint, maxint) = {}
    /\ pc' = "raised"
    /\ \/ fn = "get_calculation_multiplication" /\ x' \in randint(2, 9)
       \/ fn # "get_calculation_multiplication" /\ x' = x
    /\ UNCHANGED <<n1, n2, multiplicand, i, ret>>
    /\ ParamsUnchanged

\* Exhausted one iteration early.
Exhausted_early ==
    /\ pc = "loop" /\ fn \in Searches /\ ~(i + 1 < ntrials)
    /\ pc' = "returned"
    /\ ret' = Sentinel
    /\ UNCHANGED <<n1, n2, x, multiplicand, i>>
    /\ ParamsUnchanged

\* The loop is over: return [None, None, None].
Exhausted ==
    /\ pc = "loop" /\ fn \in Searches /\ ~(i < ntrials)
    /\ pc' = "returned"
    /\ ret' = Sentinel
    /\ UNCHANGED <<n1, n2, x, multiplicand, i>>
    /\ ParamsUnchanged

SearchNext ==
    \/ AdditionTrial
    \/ SubtractionTrial
    \/ MultiplicationTrial
    \/ RandintRaises
    \/ Exhausted

SearchSpec == SearchInit /\ [][SearchNext]_vars

----------------------------------------------------------------------------
(* Properties of the accumulators, checked under Spec *)

\* int(s) of a digit string s.
RECURSIVE IntOf(_)
IntOf(s) ==
    IF s = <<>> THEN 0
    ELSE IntOf(SubSeq(s, 1, Len(s) - 1)) * 10 + s[Len(s)]

\* The locals Q and carry are bound: the call is in its loop or has left it.
InLoopOrAfter ==
    \/ pc = "loop"
    \/ pc = "raised"
    \/ pc = "returned" /\ ret # None

\* The step is one iteration of the loop over the digit positions.
IsIteration == pc = "loop" /\ d >= 0 /\ pc' = "loop" /\ d' = d - 1

\* C4: each accumulator returns None exactly outside its domain
\* (q_addition: n1 <= 0 or n2 <= 0; q_subtraction: not (n1 > 0 and
\* 0 < n2 < n1); q_multiplication: x < 2 or x > 9), returns a number inside
\* it, and never ends with an exception.
C4_NoneExactlyOutsideDomain ==
    /\ pc # "raised"
    /\ pc = "returned" =>
         IF ret = None
         THEN CASE fn = "q_addition" -> n1 <= 0 \/ n2 <= 0
                [] fn = "q_subtraction" -> ~(n1 > 0 /\ 0 < n2 /\ n2 < n1)
                [] fn = "q_multiplication" -> x < 2 \/ x > 9
         ELSE /\ ret.type = "number"
              /\ CASE fn = "q_addition" -> IntOf(n1) > 0 /\ IntOf(n2) > 0
                   [] fn = "q_subtraction" ->
                        /\ IntOf(n1) > 0
                        /\ 0 < IntOf(n2) /\ IntOf(n2) < IntOf(n1)
                   [] fn = "q_multiplication" -> 2 <= x /\ x <= 9

\* q_subtraction(n, n) for n > 0 has returned None.
C4_Witness ==
    /\ pc = "returned" /\ fn = "q_subtraction" /\ ret = None
    /\ n1 > 0 /\ n2 = n1

\* C5: every integer handed to log10 is >= 1, so that every contribution is
\* defined and non-negative: no call raises, the returned Q is >= 0, and an
\* iteration only ever appends to Q a term that does not lower it.
C5_TermsAtLeastOne ==
    /\ [](/\ pc # "raised"
          /\ InLoopOrAfter => \A k \in 1..Len(Q) : Q[k] >= 1
          /\ (pc = "returned" /\ ret # None) =>
                ret.value = Q /\ QProduct(ret.value) >= 1)
    /\ [][IsIteration =>
            /\ Len(Q') >= Len(Q)
            /\ SubSeq(Q', 1, Len(Q)) = Q
            /\ QProduct(Q') >= QProduct(Q)]_vars

\* An addition has handed log10 the integer 1 (two zero digits and an
\* incoming carry, as in 109 + 101).
C5_Witness ==
    /\ pc = "returned" /\ fn = "q_addition" /\ ret # None
    /\ \E k \in 1..Len(Q) : Q[k] = 1

\* C6: in q_addition and q_subtraction a position with exactly one non-zero
\* digit, no incoming carry and no carry produced adds nothing to Q, and a
\* position with two non-zero digits adds a term > 1 (a positive amount);
\* an addition all of whose positions have exactly one non-zero digit has
\* Q = 0, as q_addition(10, 1), while q_addition(11, 1) = log10(4).
C6_SingleDigitPositionsAddNothing ==
    /\ []((pc = "returned" /\ fn = "q_addition" /\ ret # None) =>
            /\ (\A k \in 1..length : (n1[k] = 0) # (n2[k] = 0)) =>
                   ret = Num(<<>>)
            /\ (n1 = <<1, 0>> /\ n2 = <<0, 1>>) => QProduct(ret.value) = 1
            /\ (n1 = <<1, 1>> /\ n2 = <<0, 1>>) => ret = Num(<<4>>))
    /\ [][(IsIteration /\ fn \in {"q_addition", "q_subtraction"}) =>
            LET d1 == n1[d + 1]
                d2 == n2[d + 1]
            IN  /\ (((d1 = 0) # (d2 = 0)) /\ carry = 0 /\ carry' = 0) =>
                      Q' = Q
                /\ (d1 # 0 /\ d2 # 0) =>
                      /\ Len(Q') = Len(Q) + 1
                      /\ Q'[Len(Q')] > 1]_vars

\* q_addition(10, 1) has returned 0.
C6_Witness ==
    /\ pc = "returned" /\ fn = "q_addition" /\ ret = Num(<<>>)
    /\ n1 = <<1, 0>> /\ n2 = <<0, 1>>

\* C7: q_subtraction goes through the zero-padded digits from the least to
\* the most significant one and at each adds nothing if d2 = 0 and the
\* incoming borrow is 0, log10(d1 + d2 + |d1 - d2| + borrow) with no borrow
\* out if d1 - d2 - borrow >= 0, and log10(d1 + d2 + |d1 - d2| + 10 +
\* borrow) with a borrow out otherwise; q_subtraction(11, 2) has the
\* constellation sums 14 then 3.
C7_SubtractionStep ==
    /\ []((fn = "q_subtraction" /\ InLoopOrAfter) =>
            /\ Len(n1) = length /\ Len(n2) = length
            /\ (pc = "returned" /\ n1 = <<1, 1>> /\ n2 = <<0, 2>>) =>
                   ret = Num(<<14, 3>>))
    /\ [][(fn = "q_subtraction" /\ pc = "call" /\ pc' = "loop") =>
            d' = length' - 1 /\ carry' = 0 /\ Q' = <<>>]_vars
    /\ [][(fn = "q_subtraction" /\ pc = "loop" /\ pc' = "returned") =>
            d = -1]_vars
    /\ [][(fn = "q_subtraction" /\ pc = "loop" /\ d >= 0) =>
            LET d1 == n1[d + 1]
                d2 == n2[d + 1]
                diff == IF d1 >= d2 THEN d1 - d2 ELSE d2 - d1
            IN  /\ IsIteration
                /\ IF d2 = 0 /\ carry = 0
                   THEN Q' = Q
                   ELSE IF d1 - d2 - carry >= 0
                   THEN /\ Q' = Q \o <<d1 + d2 + diff + carry>>
                        /\ carry' = 0
                   ELSE /\ Q' = Q \o <<d1 + d2 + diff + 10 + carry>>
                        /\ carry' = 1]_vars

\* q_subtraction(11, 2) has returned log10(14) + log10(3).
C7_Witness ==
    /\ pc = "returned" /\ fn = "q_subtraction" /\ ret = Num(<<14, 3>>)
    /\ n1 = <<1, 1>> /\ n2 = <<0, 2>>

\* C8: the carry of q_addition and q_subtraction is 0 or 1 at every
\* position; the carry of q_multiplication is in 0..8, and after a step
\* that carries and is not the last one it is the tens count of
\* x * m + incoming carry.
C8_CarryRange ==
    /\ [](InLoopOrAfter =>
            IF fn = "q_multiplication" THEN carry \in 0..8
            ELSE carry \in {0, 1})
    /\ [][(IsIteration /\ fn = "q_multiplication") =>
            LET product == x * multiplicand[d + 1] + carry
            IN  (product >= 10 /\ d > 0) =>
                    /\ carry' * 10 = product - (product % 10)
                    /\ carry' >= 1]_vars

\* A multiplication carries 8 into a position that receives a carry and
\* is not the last one.
C8_Witness ==
    /\ pc = "loop" /\ fn = "q_multiplication" /\ carry = 8
    /\ d > 0 /\ d < Len(multiplicand) - 1

\* The borrow a subtraction of the digits right of position dd leaves.
TrueBorrow(s1, s2, dd) ==
    IF IntOf(SubSeq(s1, dd + 2, Len(s1))) < IntOf(SubSeq(s2, dd + 2, Len(s2)))
    THEN 1 ELSE 0

\* C10: the carry of q_subtraction is the arithmetic borrow: after each
\* position it is 1 exactly when d1 - d2 - borrow-in < 0 (0 in the branch
\* that computes nothing), which is the borrow of the subtraction of the
\* digits processed so far, and it is 0 after the most significant
\* position.
C10_CarryIsBorrow ==
    /\ []((fn = "q_subtraction" /\ InLoopOrAfter) =>
            /\ carry = TrueBorrow(n1, n2, d)
            /\ d < 0 => carry = 0)
    /\ [][(IsIteration /\ fn = "q_subtraction") =>
            /\ carry' = (IF n1[d + 1] - n2[d + 1] - carry < 0 THEN 1 ELSE 0)
            /\ (n2[d + 1] = 0 /\ carry = 0) => (carry' = 0 /\ Q' = Q)]_vars

\* 201 - 102 has borrowed at the units and again at the tens, where both
\* digits are 0, and has returned with no borrow left.
C10_Witness ==
    /\ pc = "returned" /\ fn = "q_subtraction"
    /\ ret = Num(<<14, 11, 5>>) /\ carry = 0
    /\ n1 = <<2, 0, 1>> /\ n2 = <<1, 0, 2>>

----------------------------------------------------------------------------
(* Properties of the searches, checked under SearchSpec *)

\* The operands of the list a search has returned, and its Q-value.
RetA == ret[1].value

RetB == ret[2].value

RetQ == ret[3]

ReturnedTriple == pc = "returned" /\ ret # Sentinel

\* lower <= q <= upper for a returned Q-value q.
WithinInterval(q) ==
    /\ q # None
    /\ q.type = "number"
    /\ Log10Ge(QProduct(q.value), lower)
    /\ Log10Le(QProduct(q.value), upper)

\* C1: a search that does not return [None, None, None] returns [a, b, q]
\* with q the Q-value of (a, b), lower <= q <= upper, and the operands in
\* their sampling bounds.
C1_ReturnedTripleInRange ==
    ReturnedTriple =>
        /\ ret[1].type = "number" /\ ret[2].type = "number"
        /\ WithinInterval(RetQ)
        /\ CASE fn = "get_calculation_addition" ->
                  /\ RetQ = q_addition(RetA, RetB)
                  /\ minint <= RetA /\ RetA <= maxint
                  /\ minint <= RetB /\ RetB <= maxint
                  /\ n1 = RetA /\ n2 = RetB
             [] fn = "get_calculation_subtraction" ->
                  /\ RetQ = q_subtraction(RetA, RetB)
                  /\ minint <= RetA /\ RetA <= maxint
                  /\ minint <= RetB /\ RetB <= RetA
                  /\ n1 = RetA /\ n2 = RetB
             [] fn = "get_calculation_multiplication" ->
                  /\ RetQ = q_multiplication(RetA, RetB)
                  /\ 2 <= RetA /\ RetA <= 9
                  /\ minint <= RetB /\ RetB <= maxint
                  /\ x = RetA /\ multiplicand = RetB

\* get_calculation_multiplication(1, 2) has returned [9, 9, log10(99)].
C1_Witness ==
    /\ ReturnedTriple /\ fn = "get_calculation_multiplication"
    /\ lower = 1 /\ upper = 2
    /\ ret = <<Num(9), Num(9), Num(<<99>>)>>

\* The Q-value the search's accumulator gives the candidate (a, b).
QOf(a, b) ==
    CASE fn = "get_calculation_addition" -> q_addition(a, b)
      [] fn = "get_calculation_subtraction" -> q_subtraction(a, b)
      [] fn = "get_calculation_multiplication" -> q_multiplication(a, b)

\* The candidate the current iteration drew.
Candidate ==
    IF fn = "get_calculation_multiplication" THEN <<x, multiplicand>>
    ELSE <<n1, n2>>

\* Some operand pair inside the bounds has its Q-value in [lower, upper].
Feasible ==
    CASE fn = "get_calculation_addition" ->
           \E a \in minint..maxint : \E b \in minint..maxint :
               WithinInterval(q_addition(a, b))
      [] fn = "get_calculation_subtraction" ->
           \E a \in minint..maxint : \E b \in minint..a :
               WithinInterval(q_subtraction(a, b))
      [] fn = "get_calculation_multiplication" ->
           \E a \in 2..9 : \E b \in minint..maxint :
               WithinInterval(q_multiplication(a, b))

C3_NeverFails ==
    (/\ pc = "returned" /\ fn = "get_calculation_addition"
     /\ lower = 0 /\ upper = 0
     /\ minint = DefaultMinInt /\ maxint = MaxSearchInt
     /\ ntrials = MaxTrials) =>
        ret # Sentinel

\* C3, amended: get_calculation_addition(0, 0) with minint = 1 returns
\* either a valid triple [n1, n2, q] with q = 0, or [None, None, None] after
\* ntrials iterations whose candidates all had another Q-value.
C3_ZeroOrExhausted ==
    (/\ pc = "returned" /\ fn = "get_calculation_addition"
     /\ lower = 0 /\ upper = 0 /\ minint = DefaultMinInt) =>
        IF ret = Sentinel
        THEN /\ i = ntrials
             /\ ntrials > 0 => QProduct(q_addition(n1, n2).value) # 1
        ELSE /\ RetQ = q_addition(RetA, RetB)
             /\ QProduct(RetQ.value) = 1
             /\ 1 <= RetA /\ RetA <= maxint
             /\ 1 <= RetB /\ RetB <= maxint

\* get_calculation_addition(0, 0) has returned [10, 1, 0].
C3_Witness ==
    /\ pc = "returned" /\ fn = "get_calculation_addition"
    /\ lower = 0 /\ upper = 0 /\ minint = DefaultMinInt
    /\ ret = <<Num(10), Num(1), Num(<<>>)>>

\* C9: get_calculation_subtraction returns only pairs with
\* minint <= n2 < n1 <= maxint; a candidate for which q_subtraction is
\* invalid (n2 = n1 among them) uses up one iteration, raises nothing and is
\* not returned; with minint = maxint the call returns [None, None, None].
C9_SubtractionNeverReturnsEqualPair ==
    /\ [](fn = "get_calculation_subtraction" =>
            /\ ReturnedTriple =>
                 /\ minint <= RetB /\ RetB < RetA /\ RetA <= maxint
                 /\ RetA = n1 /\ RetB = n2
            /\ minint <= maxint => pc # "raised"
            /\ (pc = "returned" /\ minint = maxint) => ret = Sentinel)
    /\ [][(/\ fn = "get_calculation_subtraction"
           /\ pc = "loop" /\ i < ntrials /\ minint <= maxint) =>
             (~(n1' > 0 /\ 0 < n2' /\ n2' < n1') =>
                  /\ pc' = "loop"
                  /\ i' = i + 1
                  /\ ret' = ret)]_vars

\* A candidate with n2 = n1 was drawn and the search went on.
C9_Witness ==
    /\ fn = "get_calculation_subtraction" /\ pc = "loop"
    /\ i >= 1 /\ n1 = n2 /\ n1 > 0

====
